---------------------------- MODULE Spec2Model ----------------------------
(***************************************************************************)
(* Proof-of-work kernel of standalone-miner/src/main.rs: get_target,       *)
(* hash_with_fractal_salt, validate_proof and Miner::mine.                 *)
(*                                                                         *)
(* Bytes are naturals 0..255.  A Vec<u8> / &[u8] is a TLA+ sequence, so    *)
(* Rust index i is TLA+ index i + 1.  A u64 does not fit a TLC integer; it *)
(* is kept as four base-65536 digits, most significant first.              *)
(***************************************************************************)
EXTENDS Integers, Sequences, FiniteSets, TLC

VARIABLES
    data,        \* mine: the payload argument
    salt,        \* mine: the salt argument
    difficulty,  \* mine: the difficulty argument
    target,      \* mine: local `target`
    nonce,       \* mine: local `nonce` (u64)
    input,       \* mine: local `input` of the current iteration
    hash,        \* mine: local `hash` of the current iteration
    fed,         \* bytes the hasher had absorbed when it was finalized
    pc,          \* mine: position of the run
    ret,         \* mine: the returned pair, once returned
    tried,       \* history: nonces hashed so far
    retried,     \* history: nonces hashed more than once
    sha,         \* the SHA-256 function of this behaviour
    call         \* a single call of get_target / validate_proof and its result

vars == <<data, salt, difficulty, target, nonce, input, hash, fed, pc, ret,
          tried, retried, sha, call>>

mineVars == <<data, salt, difficulty, target, nonce, input, hash, fed, pc, ret,
              tried, retried, sha>>

----------------------------------------------------------------------------
(* Program constants *)

\* vec![0u8; 32]: the length of a target; also the SHA-256 output length.
TargetLen == 32

\* the literal 255 of `255 >> (difficulty % 8)`; also the largest u8.
ByteMax == 255

\* the literal 8 of `difficulty / 8` and `difficulty % 8`.
BitsPerByte == 8

\* nonce.to_le_bytes(): a u64 is 8 bytes.
NonceBytes == 8

\* one digit of a u64 holds two bytes; a u64 has NonceBytes / 2 digits.
Limb == (ByteMax + 1) * (ByteMax + 1)

Limbs == NonceBytes \div 2

----------------------------------------------------------------------------
(* Bounds of the model *)

\* nonces 0..MaxLowNonce are hashed one by one from the start of the range.
MaxLowNonce == 1

\* nonces u64::MAX - HighSpan .. u64::MAX are hashed one by one at its end.
HighSpan == 0

\* longest byte sequence handed to validate_proof besides 32-byte ones.
MaxShortLen == 2

\* difficulties 256 .. 256 + BitsPerByte + ExtraDifficulty are tried besides 0..255.
ExtraDifficulty == 1

----------------------------------------------------------------------------
(* Helpers *)

Min(a, b) == IF a < b THEN a ELSE b

RECURSIVE Pow2(_)
Pow2(k) == IF k = 0 THEN 1 ELSE 2 * Pow2(k - 1)

\* x >> k on an unsigned value
Shr(x, k) == x \div Pow2(k)

\* a value that either is there or is a panic
Ok(v) == [panic |-> FALSE, value |-> v]

Panicked == [panic |-> TRUE, value |-> <<>>]

\* vec![0u8; n]
ZeroVec(n) == [i \in 1..n |-> 0]

----------------------------------------------------------------------------
(* get_target, main.rs 65-75 *)

\* the loop `for i in 0..bytes { target[i] = 0; }`, from index i on;
\* an index past the end of the vector panics.
RECURSIVE ZeroPrefixLoop(_, _, _)
ZeroPrefixLoop(t, i, bytes) ==
    IF i >= bytes THEN Ok(t)
    ELSE IF i >= Len(t) THEN Panicked
    ELSE ZeroPrefixLoop([t EXCEPT ![i + 1] = 0], i + 1, bytes)

\* faulty variant: the cut byte is shifted by the byte index instead of the bit rest
get_target_shift_by_index(d) ==
    LET bytes  == d \div BitsPerByte
        zeroed == ZeroPrefixLoop(ZeroVec(TargetLen), 0, bytes)
    IN  IF zeroed.panic THEN Panicked
        ELSE IF bytes < TargetLen
             THEN Ok([zeroed.value EXCEPT ![bytes + 1] = Shr(ByteMax, bytes % BitsPerByte)])
             ELSE zeroed

\* faulty variant: the cut byte is written one place too late
get_target_late_cut(d) ==
    LET bytes  == d \div BitsPerByte
        zeroed == ZeroPrefixLoop(ZeroVec(TargetLen), 0, bytes)
    IN  IF zeroed.panic THEN Panicked
        ELSE IF bytes + 1 < TargetLen
             THEN Ok([zeroed.value EXCEPT ![bytes + 2] = Shr(ByteMax, d % BitsPerByte)])
             ELSE zeroed

get_target(d) ==
    LET bytes  == d \div BitsPerByte
        zeroed == ZeroPrefixLoop(ZeroVec(TargetLen), 0, bytes)
    IN  IF zeroed.panic THEN Panicked
        ELSE IF bytes < TargetLen
             THEN Ok([zeroed.value EXCEPT ![bytes + 1] = Shr(ByteMax, d % BitsPerByte)])
             ELSE zeroed

----------------------------------------------------------------------------
(* validate_proof, main.rs 77-86 *)

\* the loop over hash.iter().zip(target.iter()), from pair i on; zip stops
\* at the end of the shorter sequence.
RECURSIVE ZipLoop(_, _, _)
ZipLoop(h, t, i) ==
    IF i > Min(Len(h), Len(t)) THEN TRUE
    ELSE IF h[i] < t[i] THEN TRUE
    ELSE IF h[i] > t[i] THEN FALSE
    ELSE ZipLoop(h, t, i + 1)

\* faulty variant: equal sequences are rejected (strict comparison)
RECURSIVE ZipLoopStrict(_, _, _)
ZipLoopStrict(h, t, i) ==
    IF i > Min(Len(h), Len(t)) THEN FALSE
    ELSE IF h[i] < t[i] THEN TRUE
    ELSE IF h[i] > t[i] THEN FALSE
    ELSE ZipLoopStrict(h, t, i + 1)

validate_proof_strict(h, t) == ZipLoopStrict(h, t, 1)

\* faulty variant: sequences of different lengths are rejected after an equal prefix
validate_proof_same_len(h, t) == ZipLoop(h, t, 1) /\ Len(h) = Len(t)

validate_proof(h, t) == ZipLoop(h, t, 1)

----------------------------------------------------------------------------
(* u64 arithmetic on the nonce, main.rs 91, 94, 99 *)

\* the u64 with value k, for 0 <= k < Limb
U64(k) == [i \in 1..Limbs |-> IF i = Limbs THEN k ELSE 0]

\* u64::MAX
U64_MAX == [i \in 1..Limbs |-> Limb - 1]

\* u64::MAX - k, for 0 <= k < Limb
U64FromMax(k) == [i \in 1..Limbs |-> IF i = Limbs THEN Limb - 1 - k ELSE Limb - 1]

\* a < b as u64 values
RECURSIVE U64LessFrom(_, _, _)
U64LessFrom(a, b, i) ==
    IF i > Limbs THEN FALSE
    ELSE IF a[i] < b[i] THEN TRUE
    ELSE IF a[i] > b[i] THEN FALSE
    ELSE U64LessFrom(a, b, i + 1)

U64Less(a, b) == U64LessFrom(a, b, 1)

\* n + k carried through the digits from the least significant one (digit i);
\* a carry out of the most significant digit is an overflow.
RECURSIVE AddFrom(_, _, _)
AddFrom(n, k, i) ==
    IF k = 0 THEN [overflow |-> FALSE, value |-> n]
    ELSE IF i = 0 THEN [overflow |-> TRUE, value |-> n]
    ELSE AddFrom([n EXCEPT ![i] = (n[i] + k) % Limb], (n[i] + k) \div Limb, i - 1)

\* faulty variant: the nonce advances by two
add_two(n) == AddFrom(n, 2, Limbs)

\* `nonce + 1`: the sum modulo 2^64 and whether it overflowed
add_one(n) == AddFrom(n, 1, Limbs)

\* faulty variant: most significant byte first
to_be_bytes(n) ==
    [j \in 1..NonceBytes |->
        IF j % 2 = 1 THEN n[(j + 1) \div 2] \div (ByteMax + 1)
                     ELSE n[(j + 1) \div 2] % (ByteMax + 1)]

\* nonce.to_le_bytes(): least significant byte first
to_le_bytes(n) ==
    [j \in 1..NonceBytes |->
        IF j % 2 = 1 THEN n[Limbs - ((j - 1) \div 2)] % (ByteMax + 1)
                     ELSE n[Limbs - ((j - 1) \div 2)] \div (ByteMax + 1)]

----------------------------------------------------------------------------
(* hash_with_fractal_salt, main.rs 58-63 *)

\* SHA-256 is not computed: each behaviour fixes one function from byte
\* sequences to 32-byte digests, given by a table and the digest of every
\* sequence not in the table.
Sha256(m) == IF m \in DOMAIN sha.table THEN sha.table[m] ELSE sha.rest

\* Sha256::new(): nothing absorbed yet
Sha256_new == <<>>

\* hasher.update(bytes): the hasher absorbs bytes after what it holds
update(hasher, bytes) == hasher \o bytes

\* hasher.finalize().to_vec()
finalize(hasher) == Sha256(hasher)

\* what the hasher holds when hash_with_fractal_salt finalizes it
absorbed(d, s) == update(update(Sha256_new, d), s)

hash_with_fractal_salt(d, s) == finalize(absorbed(d, s))

----------------------------------------------------------------------------
(* Inputs of Miner::mine *)

\* a 32-byte sequence that is zero except where f says otherwise
Bytes32(f) == [i \in 1..TargetLen |-> IF i \in DOMAIN f THEN f[i] ELSE 0]

\* the digests SHA-256 may give in a run of mine: all zero; 00 01 00 ..;
\* FF 00 .. 00 01
MineDigests ==
    { ZeroVec(TargetLen), Bytes32(2 :> 1), Bytes32(1 :> ByteMax @@ TargetLen :> 1) }

\* (payload, salt) pairs
MineInputs == { << <<>>, <<>> >>, << <<1, 2>>, <<3>> >> }

\* difficulties: the loosest, the tightest valid one, the first one past the
\* valid range, and the first whose byte count passes the target's length
MineDifficulties ==
    { 0, TargetLen * BitsPerByte - 1, TargetLen * BitsPerByte,
      (TargetLen + 1) * BitsPerByte }

\* the nonces whose digests the SHA-256 table gives one by one
LowNonces == { U64(k) : k \in 0..MaxLowNonce }

HighNonces == { U64FromMax(k) : k \in 0..HighSpan }

\* the first nonce after the low ones and the first of the high ones; every
\* nonce from GapFirst up to, not including, HighFirst has the digest sha.rest
GapFirst == U64(MaxLowNonce + 1)

HighFirst == U64FromMax(HighSpan)

InGap(n) == U64Less(U64(MaxLowNonce), n) /\ U64Less(n, HighFirst)

\* the SHA-256 functions of a run with payload d and salt s
ShaFunctions(d, s) ==
    [ table : [ { d \o to_le_bytes(n) \o s : n \in LowNonces \cup HighNonces } -> MineDigests ],
      rest  : MineDigests ]

NoCall == [fn |-> "none"]

NoSha == [table |-> <<>>, rest |-> <<>>]

----------------------------------------------------------------------------
(* Miner::mine, main.rs 89-101 *)

\* the call mine(data, salt, difficulty), before line 90
Init ==
    /\ \E io \in MineInputs : data = io[1] /\ salt = io[2] /\ sha \in ShaFunctions(io[1], io[2])
    /\ difficulty \in MineDifficulties
    /\ target = <<>>
    /\ nonce = U64(0)
    /\ input = <<>>
    /\ hash = <<>>
    /\ fed = <<>>
    /\ pc = "start"
    /\ ret = <<>>
    /\ tried = {}
    /\ retried = {}
    /\ call = NoCall

\* lines 90-91: `let target = get_target(difficulty); let mut nonce: u64 = 0;`
Start ==
    /\ pc = "start"
    /\ LET t == get_target(difficulty)
       IN  IF t.panic
           THEN /\ pc' = "panic"
                /\ UNCHANGED <<target, nonce>>
           ELSE /\ target' = t.value
                /\ nonce' = U64(0)
                /\ pc' = "loop"
    /\ UNCHANGED <<data, salt, difficulty, input, hash, fed, ret, tried, retried, sha, call>>

\* lines 93-95: build the input and hash it with the salt
Hash ==
    /\ pc = "loop"
    /\ input' = data \o to_le_bytes(nonce)
    /\ fed' = absorbed(input', salt)
    /\ hash' = hash_with_fractal_salt(input', salt)
    /\ tried' = tried \cup {nonce}
    /\ retried' = IF nonce \in tried THEN retried \cup {nonce} ELSE retried
    /\ pc' = "hashed"
    /\ UNCHANGED <<data, salt, difficulty, target, nonce, ret, sha, call>>

\* faulty variant: the nonce is advanced before the pair is returned
AcceptAfterIncrement ==
    /\ pc = "hashed"
    /\ validate_proof(hash, target)
    /\ ret' = <<add_one(nonce).value, hash>>
    /\ pc' = "found"
    /\ UNCHANGED <<data, salt, difficulty, target, nonce, input, hash, fed, tried, retried, sha, call>>

\* lines 96-97: `if validate_proof(&hash, &target) { return (nonce, hash); }`
Accept ==
    /\ pc = "hashed"
    /\ validate_proof(hash, target)
    /\ ret' = <<nonce, hash>>
    /\ pc' = "found"
    /\ UNCHANGED <<data, salt, difficulty, target, nonce, input, hash, fed, tried, retried, sha, call>>

\* lines 96, 99: the digest is rejected and `nonce += 1` does not overflow
Reject ==
    /\ pc = "hashed"
    /\ ~validate_proof(hash, target)
    /\ ~InGap(nonce)
    /\ ~add_one(nonce).overflow
    /\ nonce' = add_one(nonce).value
    /\ pc' = "loop"
    /\ UNCHANGED <<data, salt, difficulty, target, input, hash, fed, ret, tried, retried, sha, call>>

\* lines 93-99, repeated: the digest of a nonce in the gap is rejected.  Every
\* later nonce of the gap has the same digest (sha.rest) and the target does
\* not change, so each of those iterations rejects too and adds 1; this step
\* is all of them together, up to the iteration that leaves nonce at HighFirst.
\* The locals are those of the last such iteration (nonce HighFirst - 1).
RejectRun ==
    /\ pc = "hashed"
    /\ ~validate_proof(hash, target)
    /\ InGap(nonce)
    /\ nonce' = HighFirst
    /\ input' = data \o to_le_bytes(U64FromMax(HighSpan + 1))
    /\ fed' = absorbed(input', salt)
    /\ hash' = hash_with_fractal_salt(input', salt)
    /\ pc' = "loop"
    /\ UNCHANGED <<data, salt, difficulty, target, ret, tried, retried, sha, call>>

\* lines 96, 99: the digest of nonce u64::MAX is rejected and `nonce += 1`
\* overflows; a build with overflow checks (debug) panics
OverflowPanic ==
    /\ pc = "hashed"
    /\ ~validate_proof(hash, target)
    /\ add_one(nonce).overflow
    /\ pc' = "panic"
    /\ UNCHANGED <<data, salt, difficulty, target, nonce, input, hash, fed, ret, tried, retried, sha, call>>

\* the same in a build without overflow checks (release): the nonce wraps
OverflowWrap ==
    /\ pc = "hashed"
    /\ ~validate_proof(hash, target)
    /\ add_one(nonce).overflow
    /\ nonce' = add_one(nonce).value
    /\ pc' = "loop"
    /\ UNCHANGED <<data, salt, difficulty, target, input, hash, fed, ret, tried, retried, sha, call>>

Next ==
    \/ Start
    \/ Hash
    \/ Accept
    \/ Reject
    \/ RejectRun
    \/ OverflowPanic
    \/ OverflowWrap

Spec == Init /\ [][Next]_vars

\* mine runs on one thread that nothing suspends: a step that can be taken is taken
FairSpec == Init /\ [][Next]_vars /\ WF_vars(Next)

\* the calls of mine with a difficulty of the documented range 0..255
InitInRange == Init /\ difficulty < TargetLen * BitsPerByte

SpecInRange == InitInRange /\ [][Next]_vars

----------------------------------------------------------------------------
(* Properties of Miner::mine *)

\* the difficulties the kernel documents as valid: 0..255
ValidDifficulty == 0..(TargetLen * BitsPerByte - 1)

\* byte k (k = 0 the least significant) of the u64 n: (n div 256^k) mod 256
ByteOf(n, k) ==
    LET digit == n[Limbs - (k \div 2)]
    IN  IF k % 2 = 0 THEN digit % (ByteMax + 1) ELSE (digit \div (ByteMax + 1)) % (ByteMax + 1)

\* payload || little-endian(n) || salt, written out byte by byte
Preimage(n) ==
    [i \in 1..(Len(data) + NonceBytes + Len(salt)) |->
        IF i <= Len(data) THEN data[i]
        ELSE IF i <= Len(data) + NonceBytes THEN ByteOf(n, i - Len(data) - 1)
        ELSE salt[i - Len(data) - NonceBytes]]

\* one nonce for each part of the u64 range: the low ones, the gap, the high ones
SomeNonces == LowNonces \cup {GapFirst} \cup HighNonces

\* C1: whenever mine has returned (nonce, digest), the digest is the SHA-256
\* of payload || little-endian(nonce) || salt, and validate_proof accepts it
\* against get_target(difficulty).
C1_ReturnedProofVerifies ==
    pc = "found" =>
        /\ Len(ret) = 2
        /\ ret[2] = Sha256(Preimage(ret[1]))
        /\ ~get_target(difficulty).panic
        /\ validate_proof(ret[2], get_target(difficulty).value)

\* C1 witness: mine returned the last nonce of the u64 range, with a payload
C1_Witness == pc = "found" /\ ret[1] = U64_MAX /\ data # <<>>

\* C5: on every attempt the hasher has absorbed the payload, then the 8
\* bytes of the nonce least significant first, then the salt; the two
\* updates (input, then salt) give the digest of that one concatenation.
C5_HashInputOrder ==
    pc \in {"hashed", "found"} =>
        /\ Len(input) = Len(data) + NonceBytes
        /\ \A i \in 1..Len(data) : fed[i] = data[i]
        /\ \A k \in 0..(NonceBytes - 1) : fed[Len(data) + 1 + k] = ByteOf(nonce, k)
        /\ \A i \in 1..Len(salt) : fed[Len(data) + NonceBytes + i] = salt[i]
        /\ fed = Preimage(nonce)
        /\ fed = input \o salt
        /\ hash = Sha256(Preimage(nonce))

\* C5 witness: an attempt with a nonce whose bytes differ, between a
\* non-empty payload and a non-empty salt
C5_Witness ==
    /\ pc = "hashed"
    /\ nonce = U64(1)
    /\ data # <<>>
    /\ salt # <<>>

\* C7: a run of mine is only ever searching (before the loop, at its head,
\* or between hashing and checking) or has found a proof; no failure or
\* abort is reachable for any payload, salt, difficulty and nonce, the
\* largest nonce included.
C7_OnlySearchingOrFound == pc \in {"start", "loop", "hashed", "found"}

\* C8: nonces are tried in the order 0, 1, 2, ... with none skipped and none
\* repeated, against the target computed at the start; the nonce returned
\* is the smallest accepted one and every smaller one was tried and rejected.
C8_InOrderNoRepeat ==
    /\ retried = {}
    /\ pc = "loop" => tried = { n \in SomeNonces : U64Less(n, nonce) }
    /\ pc \in {"loop", "hashed", "found"} => target = get_target(difficulty).value
    /\ pc = "found" =>
          \A n \in SomeNonces :
              U64Less(n, ret[1]) => n \in tried /\ ~validate_proof(Sha256(Preimage(n)), target)

\* some nonce of the u64 range has a digest that the target of the run accepts
SolutionExists ==
    /\ ~get_target(difficulty).panic
    /\ \E n \in SomeNonces :
          validate_proof(Sha256(Preimage(n)), get_target(difficulty).value)

\* C9: with a difficulty in 0..255, if some nonce has an accepted digest the
\* run reaches FOUND; a run returns only if some nonce has an accepted digest.
C9_TerminatesWhenSolutionExists ==
    /\ (pc = "start" /\ difficulty \in ValidDifficulty /\ SolutionExists) ~> (pc = "found")
    /\ [](pc = "found" => SolutionExists)

\* C9 witness: the only accepted nonce is the last of the range, and the run
\* has found it
C9_Witness ==
    /\ pc = "found"
    /\ difficulty \in ValidDifficulty
    /\ nonce = U64_MAX
    /\ \A n \in SomeNonces \ {U64_MAX} : n \in tried

----------------------------------------------------------------------------
(* Single calls of get_target and validate_proof *)

\* the state of mine's variables while no run of mine is modelled
NoMine ==
    /\ data = <<>>
    /\ salt = <<>>
    /\ difficulty = 0
    /\ target = <<>>
    /\ nonce = U64(0)
    /\ input = <<>>
    /\ hash = <<>>
    /\ fed = <<>>
    /\ pc = "idle"
    /\ ret = <<>>
    /\ tried = {}
    /\ retried = {}
    /\ sha = NoSha

\* difficulties handed to get_target: 0..255, the values just past them,
\* and two large u32 values
Difficulties ==
    0..((TargetLen + 1) * BitsPerByte + ExtraDifficulty) \cup {1000, 2147483647}

\* digests checked against a derived target
TargetHashes ==
    { ZeroVec(TargetLen), Bytes32(TargetLen :> 1), Bytes32(1 :> 1),
      [i \in 1..TargetLen |-> ByteMax] }

\* get_target(d), then validate_proof(h, target): the path of a verifier
InitTarget ==
    /\ NoMine
    /\ \E d \in Difficulties, h \in TargetHashes :
          call = [fn |-> "get_target", difficulty |-> d, hash |-> h, stage |-> "called",
                  target |-> Ok(<<>>), accepted |-> FALSE]

\* the call get_target(call.difficulty) returns or panics
DeriveTarget ==
    /\ call.stage = "called"
    /\ call' = [call EXCEPT !.target = get_target(call.difficulty), !.stage = "derived"]
    /\ UNCHANGED mineVars

\* the call validate_proof(call.hash, target) on the derived target returns
CheckAgainstTarget ==
    /\ call.stage = "derived"
    /\ ~call.target.panic
    /\ call' = [call EXCEPT !.accepted = validate_proof(call.hash, call.target.value),
                            !.stage = "checked"]
    /\ UNCHANGED mineVars

NextTarget ==
    \/ DeriveTarget
    \/ CheckAgainstTarget

SpecTarget == InitTarget /\ [][NextTarget]_vars

\* 255 >> k for k = 0..7, written out
ShiftedByte == <<255, 127, 63, 31, 15, 7, 3, 1>>

\* C2: for d in 0..255 get_target(d) is 32 bytes, the byte at index d div 8
\* is 255 >> (d mod 8) and every other byte is 0; d = 0 gives FF 00 .. 00,
\* d = 8 gives 00 FF 00 .. 00, d = 255 gives 00 .. 00 01.
C2_TargetBytes ==
    (call.stage # "called" /\ call.difficulty \in ValidDifficulty) =>
        LET d == call.difficulty
            t == call.target.value
        IN  /\ ~call.target.panic
            /\ Len(t) = 32
            /\ \A i \in 0..31 :
                  t[i + 1] = IF i = d \div 8 THEN ShiftedByte[(d % 8) + 1] ELSE 0
            /\ d = 0 => t = <<255>> \o [i \in 1..31 |-> 0]
            /\ d = 8 => t = <<0, 255>> \o [i \in 1..30 |-> 0]
            /\ d = 255 => t = [i \in 1..31 |-> 0] \o <<1>>

\* C2 witness: get_target(255) has returned, with 0x01 as its last byte
C2_Witness ==
    /\ call.stage = "derived"
    /\ call.difficulty = 255
    /\ call.target.value[32] = 1

\* C4: for every difficulty of 256 or more get_target returns, without a
\* failure, 32 zero bytes, and validate_proof accepts against them exactly
\* the all-zero digest.
C4_OutOfRangeAllZero ==
    (call.stage # "called" /\ call.difficulty >= 256) =>
        /\ ~call.target.panic
        /\ call.target.value = [i \in 1..32 |-> 0]
        /\ call.stage = "checked" => (call.accepted <=> call.hash = [i \in 1..32 |-> 0])

----------------------------------------------------------------------------
(* Two difficulties against one digest *)

\* digests at the two thresholds and at both ends of the digest range
BoundaryHashes(d1, d2) ==
    { ZeroVec(TargetLen), [i \in 1..TargetLen |-> ByteMax],
      Bytes32((d1 \div BitsPerByte + 1) :> Shr(ByteMax, d1 % BitsPerByte)),
      Bytes32((d2 \div BitsPerByte + 1) :> Shr(ByteMax, d2 % BitsPerByte)) }

InitTighten ==
    /\ NoMine
    /\ \E d1 \in ValidDifficulty, d2 \in ValidDifficulty :
          /\ d1 < d2
          /\ \E h \in BoundaryHashes(d1, d2) :
                call = [fn |-> "tighten", d1 |-> d1, d2 |-> d2, hash |-> h, stage |-> "called",
                        t1 |-> Ok(<<>>), t2 |-> Ok(<<>>), ok1 |-> FALSE, ok2 |-> FALSE]

\* get_target(d1) and get_target(d2) return
DeriveBoth ==
    /\ call.stage = "called"
    /\ call' = [call EXCEPT !.t1 = get_target(call.d1), !.t2 = get_target(call.d2),
                            !.stage = "derived"]
    /\ UNCHANGED mineVars

\* validate_proof(hash, t1) and validate_proof(hash, t2) return
CheckBoth ==
    /\ call.stage = "derived"
    /\ ~call.t1.panic
    /\ ~call.t2.panic
    /\ call' = [call EXCEPT !.ok1 = validate_proof(call.hash, call.t1.value),
                            !.ok2 = validate_proof(call.hash, call.t2.value),
                            !.stage = "checked"]
    /\ UNCHANGED mineVars

NextTighten ==
    \/ DeriveBoth
    \/ CheckBoth

SpecTighten == InitTighten /\ [][NextTighten]_vars

\* the borrow out of byte i when a is subtracted from b as big-endian
\* integers, working up from the least significant (last) byte
RECURSIVE Borrow(_, _, _)
Borrow(b, a, i) ==
    IF i > Len(a) THEN 0
    ELSE IF b[i] - a[i] - Borrow(b, a, i + 1) < 0 THEN 1 ELSE 0

\* a <= b for two byte sequences of one length read as big-endian integers:
\* b - a does not borrow out of the most significant byte
LeqBE(a, b) == Borrow(b, a, 1) = 0

\* C6: for d1 < d2 in 0..255, get_target(d2) is strictly smaller than
\* get_target(d1) as a big-endian integer, and a digest accepted against
\* get_target(d2) is accepted against get_target(d1).
C6_LargerDifficultyTightens ==
    /\ call.stage # "called" =>
          /\ ~call.t1.panic /\ ~call.t2.panic
          /\ ~LeqBE(call.t1.value, call.t2.value)
    /\ call.stage = "checked" => (call.ok2 => call.ok1)

\* C6 witness: two difficulties in one band of 8, and a digest the looser
\* target accepts and the tighter one rejects
C6_Witness ==
    /\ call.stage = "checked"
    /\ call.d1 \div 8 = call.d2 \div 8
    /\ call.ok1
    /\ ~call.ok2

----------------------------------------------------------------------------
(* validate_proof on its own *)

\* byte values at the ends and next to the ends of the u8 range
SampleBytes == {0, 1, ByteMax}

\* 32-byte sequences that vary in their first, second and last byte
Sample32 ==
    { Bytes32(1 :> a @@ 2 :> b @@ TargetLen :> c) : a \in SampleBytes, b \in SampleBytes, c \in SampleBytes }

\* shorter sequences, down to the empty one
SampleShort == UNION { [1..n -> SampleBytes] : n \in 0..MaxShortLen }

InitValidate ==
    /\ NoMine
    /\ \E h \in Sample32 \cup SampleShort, t \in Sample32 \cup SampleShort :
          call = [fn |-> "validate_proof", hash |-> h, target |-> t, stage |-> "called",
                  result |-> FALSE]

\* the call validate_proof(call.hash, call.target) returns
Validate ==
    /\ call.stage = "called"
    /\ call' = [call EXCEPT !.result = validate_proof(call.hash, call.target),
                            !.stage = "returned"]
    /\ UNCHANGED mineVars

NextValidate == Validate

SpecValidate == InitValidate /\ [][NextValidate]_vars

\* the indices, within the common length, at which a and b differ
Differing(a, b) == { i \in 1..Min(Len(a), Len(b)) : a[i] # b[i] }

\* the least element of a non-empty set of integers
Least(S) == CHOOSE i \in S : \A j \in S : i <= j

\* C3: on two 32-byte sequences validate_proof is digest <= target as
\* big-endian integers; X against X is accepted; the first differing byte
\* decides, whatever the later bytes.
C3_BigEndianLeq ==
    (call.stage = "returned" /\ Len(call.hash) = 32 /\ Len(call.target) = 32) =>
        LET h == call.hash
            t == call.target
        IN  /\ call.result <=> LeqBE(h, t)
            /\ h = t => call.result
            /\ h # t => (call.result <=> h[Least(Differing(h, t))] < t[Least(Differing(h, t))])

\* C3 witness: accepted on the second byte although the last byte of the
\* digest is the larger one
C3_Witness ==
    /\ call.stage = "returned"
    /\ Len(call.hash) = 32 /\ Len(call.target) = 32
    /\ Least(Differing(call.hash, call.target) \cup {33}) = 2
    /\ call.hash[32] > call.target[32]
    /\ call.result

\* C10: on sequences of different lengths only the first min(len, len) pairs
\* count: an equal common prefix is accepted, so an empty hash or an empty
\* target is always accepted; otherwise the first differing pair decides.
C10_CommonPrefixOnly ==
    (call.stage = "returned" /\ Len(call.hash) # Len(call.target)) =>
        LET h == call.hash
            t == call.target
            D == Differing(h, t)
        IN  /\ D = {} => call.result
            /\ D # {} => (call.result <=> h[Least(D)] < t[Least(D)])
            /\ (h = <<>> \/ t = <<>>) => call.result

\* C10 witness: a 32-byte hash that is larger past the end of a 2-byte
\* target it agrees with, accepted
C10_Witness ==
    /\ call.stage = "returned"
    /\ Len(call.hash) = 32 /\ Len(call.target) = 2
    /\ call.hash[32] = 255
    /\ Differing(call.hash, call.target) = {}
    /\ call.result

============================================================================
